---- MODULE Spec2Model ----
(***************************************************************************)
(* Model of the LINE webhook server (src/webhook_server.py) and of the     *)
(* filing query service (src/restapi.py).                                  *)
(*                                                                         *)
(* Texts are sequences of characters.  The Japanese characters of the      *)
(* source's literals are written with one ASCII token per character:       *)
(*   "hikari tsu shin wo bun seki"  =  the analysis trigger (line 142)     *)
(*   "sho sai :"                    =  the detail marker (line 184)        *)
(*   "kyo hi no kabu mi ku ji"      =  the daily fortune phrase (line 198) *)
(*   "kabu mi ku ji :"              =  the mood-fortune marker (line 220)  *)
(*   "o ma ka se"                   =  the no-preference sentinel (223)    *)
(* Sector names and catalog fields are atomic strings.                     *)
(***************************************************************************)
EXTENDS Integers, Sequences, FiniteSets, TLC

(***************************************************************************)
(* Bounds of the model.                                                    *)
(***************************************************************************)
\* calendar days the clock can show: 1..MaxDay
MaxDay == 2
\* draws other code may make from the shared generator after one seeding
MaxDraws == 2

\* the worker threads of the threaded WSGI server that run callback()
Threads == {"t1", "t2"}

(***************************************************************************)
(* Python values.                                                          *)
(***************************************************************************)
\* a dict key that is not there (reading it raises KeyError)
Absent == "ABSENT"

\* Python's None as a selector result
None == [none |-> TRUE]

\* an optional text: mood=None, or mood=<text>
MoodNone == [some |-> FALSE, val |-> <<>>]

Some(s) == [some |-> TRUE, val |-> s]

\* truth value of "if mood": None and "" are false
Truthy(m) == m.some /\ m.val # <<>>

(***************************************************************************)
(* String operations of the dispatcher (str.strip, str.startswith,         *)
(* str.replace), on sequences of characters.                               *)
(***************************************************************************)
Whitespace == {" ", "NL"}

RECURSIVE LStrip(_)
LStrip(s) == IF s # <<>> /\ Head(s) \in Whitespace THEN LStrip(Tail(s)) ELSE s

RECURSIVE RStrip(_)
RStrip(s) ==
  IF s # <<>> /\ s[Len(s)] \in Whitespace
    THEN RStrip(SubSeq(s, 1, Len(s) - 1))
    ELSE s

\* str.strip()
Strip(s) == RStrip(LStrip(s))

\* str.startswith(p)
StartsWith(s, p) == Len(s) >= Len(p) /\ SubSeq(s, 1, Len(p)) = p

\* str.replace(old, new): every non-overlapping occurrence, left to right
RECURSIVE Replace(_, _, _)
Replace(s, old, new) ==
  IF s = <<>> THEN <<>>
  ELSE IF StartsWith(s, old)
    THEN new \o Replace(SubSeq(s, Len(old) + 1, Len(s)), old, new)
    ELSE <<Head(s)>> \o Replace(Tail(s), old, new)

(***************************************************************************)
(* Literals of handle_text_message and handle_postback.                    *)
(***************************************************************************)
AnalysisTrigger == <<"hikari", "tsu", "shin", "wo", "bun", "seki">>

DetailPrefix == <<"sho", "sai", ":">>

FortuneBase == <<"kyo", "hi", "no", "kabu", "mi", "ku", "ji">>

\* the four accepted daily-fortune phrases, in the order of line 198
FortunePhrases ==
  { FortuneBase \o <<"wo", "su", "ru", "!", "cookie">>,
    FortuneBase \o <<"clover">>,
    FortuneBase,
    FortuneBase \o <<"wo", "su", "ru">> }

MoodPrefix == <<"kabu", "mi", "ku", "ji", ":">>

Omakase == <<"o", "ma", "ka", "se">>

(***************************************************************************)
(* MOOD_MAPPING: mood label -> list of preferred sectors.                  *)
(***************************************************************************)
Sekkyokuteki == <<"sek", "kyoku", "teki">>

Hoshuteki == <<"ho", "shu", "teki">>

Boukenteki == <<"bou", "ken", "teki">>

Choukiteki == <<"chou", "ki", "teki">>

Tankiteki == <<"tan", "ki", "teki">>

MOOD_MAPPING ==
  (Sekkyokuteki :> <<"InfoComm", "Services", "Electric">>)
  @@ (Hoshuteki :> <<"Banking", "Foods", "Wholesale", "Retail">>)
  @@ (Boukenteki :> <<"InfoComm", "Pharma", "Services">>)
  @@ (Choukiteki :> <<"Transport", "Electric", "Foods", "Banking">>)
  @@ (Tankiteki :> <<"InfoComm", "Services", "Retail">>)

\* "mood in MOOD_MAPPING"
MoodMapped(m) == m.some /\ m.val \in DOMAIN MOOD_MAPPING

\* "x in list"
InList(x, l) == \E i \in 1..Len(l) : l[i] = x

(***************************************************************************)
(* The fortune catalog: load_stock_fortune_data and STOCK_FORTUNE_DATA.    *)
(* A loaded value is [kind, items]: kind "list" is a JSON array of         *)
(* objects, "null" stands for a falsy non-array (null, false, 0, "", {}),  *)
(* "object" for a non-empty JSON object (truthy, not indexable by int).    *)
(***************************************************************************)
Entry(c, n, s, k) == [code |-> c, name |-> n, sector |-> s, comment |-> k]

JList(items) == [kind |-> "list", items |-> items]

\* the fixed fallback set, lines 35-54
FallbackData ==
  JList(<< Entry("9432", "NTT", "InfoComm", "c9432"),
           Entry("7203", "Toyota", "Transport", "c7203"),
           Entry("8306", "MUFG", "Banking", "c8306") >>)

\* contents stock_fortune.json may hold when json.load succeeds
JsonValues ==
  { JList(<<>>),
    [kind |-> "null", items |-> <<>>],
    [kind |-> "object", items |-> <<>>],
    JList(<< Entry("1", "A", "InfoComm", "cA"),
             Entry("2", "B", "Banking", "cB"),
             Entry("3", "C", "Services", "cC"),
             Entry("4", "D", "RealEstate", "cD") >>),
    JList(<< Entry("5", "E", "RealEstate", "cE"),
             Entry("6", "F", "Mining", "cF") >>),
    JList(<< Entry("7", "G", "InfoComm", "cG"),
             Entry("8", "H", Absent, "cH") >>),
    JList(<< Entry("9", "I", "Banking", Absent),
             Entry("10", "J", "Banking", "cJ") >>) }

\* how open()/json.load ended
LoadOutcomes == {"missing", "unreadable", "unparsable", "parsed"}

\* load_stock_fortune_data(): whatever json.load returned, or the fallback
load_stock_fortune_data(outcome, content) ==
  IF outcome = "parsed" THEN content ELSE FallbackData

\* "if not STOCK_FORTUNE_DATA" is false
CatalogTruthy(c) == c.kind = "object" \/ (c.kind = "list" /\ c.items # <<>>)

(***************************************************************************)
(* get_todays_stock_fortune: the pure parts.                               *)
(***************************************************************************)
\* the list comprehension of line 119 raises (KeyError / TypeError)
FilterRaises(c, mood) ==
  /\ MoodMapped(mood)
  /\ \/ c.kind # "list"
     \/ \E i \in 1..Len(c.items) : c.items[i].sector = Absent

\* a plausible slip: lines 122-123 are missing, nothing falls back to the
\* full catalog
CandidatesNoFallback(c, mood) ==
  IF MoodMapped(mood)
    THEN SelectSeq(c.items, LAMBDA e : InList(e.sector, MOOD_MAPPING[mood.val]))
    ELSE c.items

\* a plausible slip: the fallback of line 123 overwrites the filter result
CandidatesNoFilter(c, mood) == c.items

\* filtered_stocks, lines 116-123 (c is a list, FilterRaises is false)
Candidates(c, mood) ==
  IF MoodMapped(mood)
    THEN LET preferred_sectors == MOOD_MAPPING[mood.val]
             filtered == SelectSeq(c.items,
                                   LAMBDA e : InList(e.sector, preferred_sectors))
         IN  IF filtered = <<>> THEN c.items ELSE filtered
    ELSE c.items

\* random.choice raises on a non-sequence and on an empty sequence (line 126)
ChoiceRaises(c, filtered_stocks) == c.kind # "list" \/ filtered_stocks = <<>>

\* the index a generator seeded with `seed` gives on its (pos+1)-th draw
\* below n: a fixed function of the seed, the position and n
RandBelow(seed, pos, n) == (seed + pos) % n

\* the f-strings of lines 204-207, 231-234, 276-279 raise KeyError
RenderRaises(f) ==
  Absent \in {f.name, f.code, f.sector, f.comment}

(***************************************************************************)
(* The dispatcher's pure parts: rule matching of handle_text_message and   *)
(* handle_postback.                                                        *)
(***************************************************************************)
\* a plausible slip: the mood-fortune rule comes before the daily phrases
\* and tests for the marker without its colon anywhere in the text
TextRuleMoodFirst(text) ==
  LET normalized_text == Strip(text)
      marker == SubSeq(MoodPrefix, 1, Len(MoodPrefix) - 1)
  IN  IF normalized_text = AnalysisTrigger THEN "analysis"
      ELSE IF StartsWith(normalized_text, DetailPrefix) THEN "detail"
      ELSE IF Replace(normalized_text, marker, <<>>) # normalized_text THEN "mood"
      ELSE IF normalized_text \in FortunePhrases THEN "daily"
      ELSE "echo"

\* the if/elif chain of lines 140-247: the first rule that matches
TextRule(text) ==
  LET normalized_text == Strip(text)
  IN  IF normalized_text = AnalysisTrigger THEN "analysis"
      ELSE IF StartsWith(normalized_text, DetailPrefix) THEN "detail"
      ELSE IF normalized_text \in FortunePhrases THEN "daily"
      ELSE IF StartsWith(normalized_text, MoodPrefix) THEN "mood"
      ELSE "echo"

\* company_name, line 185
CompanyName(text) == Strip(Replace(Strip(text), DetailPrefix, <<>>))

\* mood, lines 222-224
MoodOf(text) ==
  LET mood == Strip(Replace(Strip(text), MoodPrefix, <<>>))
  IN  IF mood = Omakase THEN MoodNone ELSE Some(mood)

\* a plausible slip: the payload is trimmed and matched by prefix
PostbackRuleLoose(data) ==
  IF StartsWith(Strip(data), <<"action=detail">>) THEN "detail"
  ELSE IF StartsWith(Strip(data), <<"action=holdings">>) THEN "holdings"
  ELSE IF StartsWith(Strip(data), <<"action=fortune">>) THEN "fortune"
  ELSE "unknown"

\* the if/elif chain of lines 266-283
PostbackRule(data) ==
  IF data = <<"action=detail">> THEN "detail"
  ELSE IF data = <<"action=holdings">> THEN "holdings"
  ELSE IF data = <<"action=fortune">> THEN "fortune"
  ELSE "unknown"

\* the event runs get_todays_stock_fortune (lines 201, 227, 273)
UsesSelector(ev) ==
  \/ ev.type = "text" /\ TextRule(ev.payload) \in {"daily", "mood"}
  \/ ev.type = "postback" /\ PostbackRule(ev.payload) = "fortune"

\* the argument the event passes to get_todays_stock_fortune
SelectorMood(ev) ==
  IF ev.type = "text" /\ TextRule(ev.payload) = "mood"
    THEN MoodOf(ev.payload)
    ELSE MoodNone

\* mood_text of line 230 ("" on the paths that have none)
MoodText(ev) ==
  IF Truthy(SelectorMood(ev)) THEN SelectorMood(ev).val ELSE <<>>

(***************************************************************************)
(* Inputs.                                                                 *)
(***************************************************************************)
TextEvent(sig, text) == [type |-> "text", sig |-> sig, payload |-> text]

PostbackEvent(sig, data) == [type |-> "postback", sig |-> sig, payload |-> data]

NoEvent == [type |-> "none", sig |-> FALSE, payload |-> <<>>]

UnknownMood == <<"mi", "chi">>

\* text bodies, one or more for every rule and every near miss
TextBodies ==
  { AnalysisTrigger,
    AnalysisTrigger \o <<"x">>,
    DetailPrefix,
    DetailPrefix \o <<"A", "B">>,
    DetailPrefix \o <<" ", "A">>,
    DetailPrefix \o <<"A">> \o DetailPrefix \o <<"B">>,
    DetailPrefix \o FortuneBase,
    FortuneBase \o <<"x">>,
    MoodPrefix,
    MoodPrefix \o Sekkyokuteki,
    MoodPrefix \o <<" ">> \o Hoshuteki,
    MoodPrefix \o Boukenteki,
    MoodPrefix \o Choukiteki,
    MoodPrefix \o Tankiteki,
    MoodPrefix \o Omakase,
    MoodPrefix \o UnknownMood,
    MoodPrefix \o Sekkyokuteki \o MoodPrefix,
    <<"h", "i">>,
    <<>> }
  \cup FortunePhrases

\* every body as it is, and with whitespace around it
AllTexts == TextBodies \cup { <<" ">> \o b \o <<"NL">> : b \in TextBodies }

AllPostbacks ==
  { <<"action=detail">>, <<"action=holdings">>, <<"action=fortune">>,
    <<"action=other">>, <<"action=fortune", " ">>, <<"action=detail", "x">> }

\* the events of the single-request specification
AllEvents ==
  { TextEvent(TRUE, x) : x \in AllTexts }
  \cup { PostbackEvent(TRUE, d) : d \in AllPostbacks }
  \cup { TextEvent(FALSE, FortuneBase), PostbackEvent(FALSE, <<"action=fortune">>) }

\* the events of the threaded specifications
FewEvents ==
  { TextEvent(TRUE, FortuneBase),
    TextEvent(TRUE, MoodPrefix \o Sekkyokuteki),
    TextEvent(TRUE, MoodPrefix \o Choukiteki),
    TextEvent(TRUE, <<"h", "i">>) }

\* the events that reach the selector with or without a mood: the daily
\* phrase, the fortune postback, the sentinel, an empty remainder, an
\* unmapped mood, and two mapped moods
MoodEvents ==
  { TextEvent(TRUE, FortuneBase),
    PostbackEvent(TRUE, <<"action=fortune">>),
    TextEvent(TRUE, MoodPrefix \o Omakase),
    TextEvent(TRUE, MoodPrefix),
    TextEvent(TRUE, MoodPrefix \o UnknownMood),
    TextEvent(TRUE, MoodPrefix \o Sekkyokuteki),
    TextEvent(TRUE, MoodPrefix \o Tankiteki) }

\* program constant: the label slice name[:20], line 149
LabelLimit == 20

LongName == [i \in 1..(LabelLimit + 1) |-> IF i = 1 THEN "L" ELSE "o"]

\* a company name that holds the detail marker
MarkedName == <<"A">> \o DetailPrefix \o <<"B">>

\* a company name stored with a blank in front
PaddedName == <<" ", "C">>

\* results get_latest_companies_by_date(limit=5) may return
CompanyLists ==
  { <<>>,
    << <<"A", "B">> >>,
    << <<"A", "B">>, LongName >>,
    << MarkedName, PaddedName >> }

(***************************************************************************)
(* State.                                                                  *)
(***************************************************************************)
VARIABLES
  STOCK_FORTUNE_DATA,  \* the catalog loaded at import time (line 57)
  loadOutcome,         \* how the load of stock_fortune.json ended
  dbImported,          \* the import of get_latest_companies_by_date succeeded
  clock,               \* the calendar day datetime.now() shows
  rng,                 \* the random module's shared generator
  pc,                  \* per thread: where its request is
  event,               \* per thread: the event of its request
  today,               \* per thread: the selector's local `today` (line 112)
  before,              \* per thread: draws made from the generator state
                       \* that the selector's seeding replaced
  fortune,             \* per thread: the selector's result
  lookup,              \* per thread: how the company lookup ended
  reply,               \* per thread: the last message given to reply_message
  calls,               \* per thread: invocations of reply_message
  delivered,           \* per thread: a reply_message call returned normally
  raised,              \* per thread: where the exception callback caught arose
  response,            \* per thread: what callback answered
  tapped,              \* per thread: the company name of the quick-reply
                       \* option whose tap sent the event, if one did
  companies,           \* per thread: the names the lookup returned (line 145)
  store,               \* restapi: the rows of the reports table
  answer,              \* restapi: what get_latest_companies answered last
  fault,               \* restapi: the statement that raised in that call
  openConns            \* restapi: connections opened and not closed

vars ==
  << STOCK_FORTUNE_DATA, loadOutcome, dbImported, clock, rng, pc, event, today,
     before, fortune, lookup, reply, calls, delivered, raised, response,
     tapped, companies, store, answer, fault, openConns >>

\* the state of the filing query service (restapi.py)
filing == << store, answer, fault, openConns >>

\* the state of the webhook server (webhook_server.py)
webhook ==
  << STOCK_FORTUNE_DATA, loadOutcome, dbImported, clock, rng, pc, event, today,
     before, fortune, lookup, reply, calls, delivered, raised, response,
     tapped, companies >>

\* what the webhook's module initialisation fixes, and the query service,
\* which no handler of the webhook touches
globals ==<< STOCK_FORTUNE_DATA, loadOutcome, dbImported, filing >>

\* random.seed(): seeded from OS entropy, the next draws are unpredictable
EntropySeeded == [mode |-> "entropy", seed |-> 0, pos |-> 0]

\* random.seed(today): the draws are a function of the date
DateSeeded(d) == [mode |-> "date", seed |-> d, pos |-> 0]

NoReply == [kind |-> "none"]

\* no request of the query service answered yet
NoAnswer == [status |-> 0, error |-> "", latest_date |-> 0, companies |-> <<>>]

\* the query service before its first request, on a table holding rows
FilingInit(rows) ==
  /\ store = rows
  /\ answer = NoAnswer
  /\ fault = "none"
  /\ openConns = 0

\* the webhook's threads before their first request
ThreadsInit ==
  /\ clock = 1
  /\ rng = EntropySeeded
  /\ pc = [t \in Threads |-> "idle"]
  /\ event = [t \in Threads |-> NoEvent]
  /\ tapped = [t \in Threads |-> MoodNone]
  /\ today = [t \in Threads |-> 0]
  /\ before = [t \in Threads |-> 0]
  /\ fortune = [t \in Threads |-> None]
  /\ lookup = [t \in Threads |-> "none"]
  /\ companies = [t \in Threads |-> <<>>]
  /\ reply = [t \in Threads |-> NoReply]
  /\ calls = [t \in Threads |-> 0]
  /\ delivered = [t \in Threads |-> FALSE]
  /\ raised = [t \in Threads |-> "none"]
  /\ response = [t \in Threads |-> "none"]

Init ==
  /\ loadOutcome \in LoadOutcomes
  /\ \E content \in JsonValues :
       STOCK_FORTUNE_DATA = load_stock_fortune_data(loadOutcome, content)
  /\ dbImported \in BOOLEAN
  /\ FilingInit(<<>>)
  /\ ThreadsInit

(***************************************************************************)
(* callback and the handlers.                                              *)
(***************************************************************************)
\* a plausible slip: the except branch of callback logs and goes on
CallbackSwallows(exc) == "OK"

\* callback, lines 98-104: any exception out of handler.handle is a 400
CallbackResponse(exc) == IF exc = "none" THEN "OK" ELSE "400"

\* the request of thread t ends: the handler returned (exc = "none") or an
\* exception left it and callback caught it
Finish(t, rep, n, ok, exc) ==
  /\ reply' = [reply EXCEPT ![t] = rep]
  /\ calls' = [calls EXCEPT ![t] = n]
  /\ delivered' = [delivered EXCEPT ![t] = ok]
  /\ raised' = [raised EXCEPT ![t] = exc]
  /\ response' = [response EXCEPT ![t] = CallbackResponse(exc)]
  /\ pc' = [pc EXCEPT ![t] = "done"]

\* one reply_message call as the last statement of a handler: it returns
\* or raises
SendLast(t, rep, sofar) ==
  \E ok \in BOOLEAN :
    Finish(t, rep, sofar + 1, ok, IF ok THEN "none" ELSE "send")

\* callback up to the dispatch: a new request, carrying one event, arrives
\* on thread t; an invalid signature makes handler.handle raise before any
\* handler runs
Receive(t, ev) ==
  /\ event' = [event EXCEPT ![t] = ev]
  /\ today' = [today EXCEPT ![t] = 0]
  /\ before' = [before EXCEPT ![t] = 0]
  /\ fortune' = [fortune EXCEPT ![t] = None]
  /\ lookup' = [lookup EXCEPT ![t] = "none"]
  /\ companies' = [companies EXCEPT ![t] = <<>>]
  /\ IF ev.sig
       THEN /\ pc' = [pc EXCEPT ![t] = "handle"]
            /\ reply' = [reply EXCEPT ![t] = NoReply]
            /\ calls' = [calls EXCEPT ![t] = 0]
            /\ delivered' = [delivered EXCEPT ![t] = FALSE]
            /\ raised' = [raised EXCEPT ![t] = "none"]
            /\ response' = [response EXCEPT ![t] = "none"]
       ELSE Finish(t, NoReply, 0, FALSE, "signature")
  /\ UNCHANGED << globals, clock, rng >>

\* a request carrying any event of evs arrives on a thread that is free
callback_receive(t, evs) ==
  /\ pc[t] \in {"idle", "done"}
  /\ \E ev \in evs : Receive(t, ev)
  /\ tapped' = [tapped EXCEPT ![t] = MoodNone]

\* a plausible slip: the label is the whole name, the [:20] is missing
QuickReplyItemsNoCut(names) ==
  [ i \in 1..Len(names) |->
      [ label |-> names[i], text |-> DetailPrefix \o names[i] ] ]

\* quick_reply_items, lines 146-154
QuickReplyItems(names) ==
  [ i \in 1..Len(names) |->
      [ label |-> SubSeq(names[i], 1,
                         IF Len(names[i]) < LabelLimit
                           THEN Len(names[i]) ELSE LabelLimit),
        text |-> DetailPrefix \o names[i] ] ]

\* what calling get_latest_companies_by_date(limit=5) can do: a NameError
\* when the import failed, otherwise it raises or returns names
LookupResults ==
  IF dbImported
    THEN { [how |-> "ok", names |-> l] : l \in CompanyLists }
         \cup { [how |-> "raised", names |-> <<>>] }
    ELSE { [how |-> "unavailable", names |-> <<>>] }

\* a plausible slip: the except branch of lines 171-182 logs and re-raises
\* instead of replying
AnalysisNoApology(t) ==
  \E res \in LookupResults, ok \in BOOLEAN :
    /\ lookup' = [lookup EXCEPT ![t] = res.how]
    /\ companies' = [companies EXCEPT ![t] = res.names]
    /\ IF res.how = "ok"
         THEN Finish(t, [kind |-> "menu", items |-> QuickReplyItems(res.names)],
                     1, ok, IF ok THEN "none" ELSE "send")
         ELSE Finish(t, NoReply, 0, FALSE, "lookup")

\* the analysis branch, lines 142-182
Analysis(t) ==
  \E res \in LookupResults, ok1 \in BOOLEAN :
    /\ lookup' = [lookup EXCEPT ![t] = res.how]
    /\ companies' = [companies EXCEPT ![t] = res.names]
    /\ IF res.how = "ok" /\ ok1
         THEN Finish(t, [kind |-> "menu", items |-> QuickReplyItems(res.names)],
                     1, TRUE, "none")
         ELSE \* except Exception: the apology is sent (again, if the
              \* exception came from the first reply_message)
              SendLast(t, [kind |-> "apology"], IF res.how = "ok" THEN 1 ELSE 0)

\* the selector's first lines (108-112), run inside the handler's call
SelectorEnter(t) ==
  /\ fortune' = fortune
  /\ lookup' = lookup
  /\ companies' = companies
  /\ UNCHANGED << reply, calls, delivered, raised, response >>
  /\ IF CatalogTruthy(STOCK_FORTUNE_DATA)
       THEN /\ today' = [today EXCEPT ![t] = clock]
            /\ pc' = [pc EXCEPT ![t] = "seed"]
       ELSE \* return None
            /\ today' = today
            /\ pc' = [pc EXCEPT ![t] = "render"]

\* handle_text_message / handle_postback up to the first use of shared
\* state: the rule is matched; the branches that do not use the selector
\* run to their reply_message call
handle_event(t) ==
  /\ pc[t] = "handle"
  /\ LET ev == event[t]
         rule == IF ev.type = "text" THEN TextRule(ev.payload)
                                      ELSE PostbackRule(ev.payload)
     IN  IF UsesSelector(ev) THEN SelectorEnter(t)
         ELSE /\ today' = today
              /\ fortune' = fortune
              /\ IF ev.type = "text" /\ rule = "analysis" THEN Analysis(t)
                 ELSE /\ lookup' = lookup
                      /\ companies' = companies
                      /\ IF ev.type = "text" /\ rule = "detail"
                           THEN SendLast(t, [kind |-> "detail",
                                             company |-> CompanyName(ev.payload)], 0)
                         ELSE IF ev.type = "text"
                           THEN SendLast(t, [kind |-> "echo", text |-> ev.payload], 0)
                         ELSE SendLast(t, [kind |-> "postback", what |-> rule], 0)
  /\ UNCHANGED << globals, clock, rng, event, tapped, before >>

\* a plausible slip: the mood is mixed into the seed
selector_seed_with_mood(t) ==
  /\ pc[t] = "seed"
  /\ rng' = DateSeeded(today[t] + Len(SelectorMood(event[t]).val))
  /\ before' = [before EXCEPT ![t] = rng.pos]
  /\ pc' = [pc EXCEPT ![t] = "choice"]
  /\ UNCHANGED << globals, clock, event, tapped, today, fortune, lookup,
                  companies, reply, calls, delivered, raised, response >>

\* random.seed(today), line 113
selector_seed(t) ==
  /\ pc[t] = "seed"
  /\ rng' = DateSeeded(today[t])
  /\ before' = [before EXCEPT ![t] = rng.pos]
  /\ pc' = [pc EXCEPT ![t] = "choice"]
  /\ UNCHANGED << globals, clock, event, tapped, today, fortune, lookup,
                  companies, reply, calls, delivered, raised, response >>

\* a plausible slip: the seed is not used (random.seed() with no argument)
ChoiceIndexUnseeded(g, n) == 0..(n - 1)

\* the indices random.choice can draw below n from generator state g
ChoiceIndex(g, n) ==
  IF g.mode = "date" THEN {RandBelow(g.seed, g.pos, n)} ELSE 0..(n - 1)

\* lines 116-126: the filter and random.choice; an exception leaves the
\* selector and the handler, and callback catches it
selector_choice(t) ==
  /\ pc[t] = "choice"
  /\ LET mood == SelectorMood(event[t])
         c == STOCK_FORTUNE_DATA
     IN  IF FilterRaises(c, mood) \/ ChoiceRaises(c, Candidates(c, mood))
           THEN /\ Finish(t, NoReply, 0, FALSE, "selector")
                /\ UNCHANGED << fortune, rng >>
           ELSE LET filtered_stocks == Candidates(c, mood)
                IN  \E i \in ChoiceIndex(rng, Len(filtered_stocks)) :
                      /\ fortune' = [fortune EXCEPT ![t] = filtered_stocks[i + 1]]
                      /\ rng' = [rng EXCEPT !.pos = @ + 1]
                      /\ pc' = [pc EXCEPT ![t] = "reset"]
                      /\ UNCHANGED << reply, calls, delivered, raised, response >>
  /\ UNCHANGED << globals, clock, event, tapped, today, before, lookup,
                  companies >>

\* random.seed(), line 129, and the return
selector_reset(t) ==
  /\ pc[t] = "reset"
  /\ rng' = EntropySeeded
  /\ pc' = [pc EXCEPT ![t] = "render"]
  /\ UNCHANGED << globals, clock, event, tapped, today, before, fortune,
                  lookup, companies, reply, calls, delivered, raised, response >>

\* the handler after the selector returned: lines 202-218, 228-245, 274-292
fortune_reply(t) ==
  /\ pc[t] = "render"
  /\ IF fortune[t] = None
       THEN SendLast(t, [kind |-> "nodata"], 0)
       ELSE IF RenderRaises(fortune[t])
         THEN Finish(t, NoReply, 0, FALSE, "render")
         ELSE SendLast(t, [kind |-> "fortune", date |-> clock,
                           mood_text |-> MoodText(event[t]),
                           entry |-> fortune[t]], 0)
  /\ UNCHANGED << globals, clock, rng, event, tapped, today, before, fortune,
                  lookup, companies >>

(***************************************************************************)
(* The environment.                                                        *)
(***************************************************************************)
\* the user taps an option of the menu that was delivered: the LINE client
\* sends the option's text (MessageAction.text, line 150) as a text message
quick_reply_tap(t) ==
  /\ pc[t] = "done"
  /\ reply[t].kind = "menu"
  /\ delivered[t]
  /\ \E i \in 1..Len(reply[t].items) :
       /\ Receive(t, TextEvent(TRUE, reply[t].items[i].text))
       /\ tapped' = [tapped EXCEPT ![t] = Some(companies[t][i])]

\* other code draws from the random module's shared generator
other_random ==
  /\ rng.pos < MaxDraws
  /\ rng' = [rng EXCEPT !.pos = @ + 1]
  /\ UNCHANGED << globals, clock, pc, event, tapped, today, before, fortune,
                  lookup, companies, reply, calls, delivered, raised, response >>

\* the calendar day changes
midnight ==
  /\ clock < MaxDay
  /\ clock' = clock + 1
  /\ UNCHANGED << globals, rng, pc, event, tapped, today, before, fortune,
                  lookup, companies, reply, calls, delivered, raised, response >>

(***************************************************************************)
(* restapi.py: the filing query service.  A row of the reports table is a  *)
(* record; its date column holds a filing date (1..MaxDay, later dates     *)
(* larger), SQL NULL, or the empty string.                                 *)
(***************************************************************************)
MaxRows == 2
MaxOpen == 2

\* SQL NULL in the date column; fetchone()[0] gives None for it
NullDate == -1

\* the empty string in the date column: below every filing date, and falsy
EmptyDate == 0

DateValues == {NullDate, EmptyDate} \cup (1..MaxDay)

Row(name, date) ==
  [name |-> name, code |-> "c", type |-> "r", date |-> date]

Rows == { Row(n, d) : n \in {"X", "Y"}, d \in DateValues }

RECURSIVE SeqsUpTo(_, _)
SeqsUpTo(S, n) ==
  IF n = 0 THEN { <<>> }
  ELSE LET shorter == SeqsUpTo(S, n - 1)
       IN  shorter \cup { Append(s, x) : s \in { q \in shorter : Len(q) = n - 1 },
                                         x \in S }

\* the tables the service is started on
Stores == SeqsUpTo(Rows, MaxRows)

\* SELECT MAX(date) FROM reports, lines 22-23: MAX skips NULL and gives
\* NULL when no row has a value
MaxDate(rows) ==
  LET ds == { rows[i].date : i \in 1..Len(rows) } \ {NullDate}
  IN  IF ds = {} THEN NullDate ELSE CHOOSE d \in ds : \A e \in ds : e <= d

\* "if not latest_date", line 25: None and '' are both falsy
NotLatest(latest_date) == latest_date \in {NullDate, EmptyDate}

RECURSIVE RowsOfDate(_, _)
\* SELECT name, code, type FROM reports WHERE date = ?, lines 29-34, and
\* the list built at lines 41-43, in the order the rows are fetched
RowsOfDate(rows, d) ==
  IF rows = <<>> THEN <<>>
  ELSE LET r == Head(rows)
           rest == RowsOfDate(Tail(rows), d)
       IN  IF r.date = d
             THEN << [name |-> r.name, code |-> r.code, type |-> r.type] >> \o rest
             ELSE rest

\* the statements of get_latest_companies that can raise
FaultPoints == {"none", "connect", "max_query", "rows_query"}

\* the fault that happens in a call: the second query is not run when the
\* first one gave no date
Occurs(rows, f) ==
  IF f = "rows_query" /\ NotLatest(MaxDate(rows)) THEN "none" ELSE f

NoData == [status |-> 404, error |-> "No data found",
           latest_date |-> NullDate, companies |-> <<>>]

Failed == [status |-> 500, error |-> "str(e)",
           latest_date |-> NullDate, companies |-> <<>>]

\* a plausible slip: an empty answer instead of the 404
ApiAnswerEmptyList(rows, f) ==
  IF Occurs(rows, f) # "none" THEN Failed
  ELSE [status |-> 200, error |-> "", latest_date |-> MaxDate(rows),
        companies |-> RowsOfDate(rows, MaxDate(rows))]

\* what get_latest_companies returns, lines 17-46
ApiAnswer(rows, f) ==
  IF Occurs(rows, f) # "none" THEN Failed
  ELSE IF NotLatest(MaxDate(rows)) THEN NoData
  ELSE [status |-> 200, error |-> "", latest_date |-> MaxDate(rows),
        companies |-> RowsOfDate(rows, MaxDate(rows))]

\* conn.close() is line 35 only: the returns of lines 26 and 46 are taken
\* with the connection of line 18 still open
LeftOpen(rows, f) ==
  /\ Occurs(rows, f) # "connect"
  /\ ApiAnswer(rows, f).status # 200

\* GET /api/latest_companies, lines 15-46
get_latest_companies ==
  /\ openConns < MaxOpen
  /\ \E f \in FaultPoints :
       /\ answer' = ApiAnswer(store, f)
       /\ fault' = Occurs(store, f)
       /\ openConns' = IF LeftOpen(store, f) THEN openConns + 1 ELSE openConns
  /\ UNCHANGED << store, webhook >>

\* the interpreter finalises a connection object nothing refers to
collect ==
  /\ openConns > 0
  /\ openConns' = openConns - 1
  /\ UNCHANGED << store, answer, fault, webhook >>

(***************************************************************************)
(* Specifications.                                                         *)
(***************************************************************************)
ThreadStep(t, evs) ==
  \/ callback_receive(t, evs)
  \/ handle_event(t)
  \/ selector_seed(t)
  \/ selector_choice(t)
  \/ selector_reset(t)
  \/ fortune_reply(t)

\* no request but t's is being handled
Quiet(t) == \A u \in Threads \ {t} : pc[u] \in {"idle", "done"}

AllQuiet == \A u \in Threads : pc[u] \in {"idle", "done"}

\* requests handled concurrently by the server's threads; nothing but the
\* selector uses the random module
Next ==
  \/ \E t \in Threads : ThreadStep(t, FewEvents)
  \/ midnight

Spec == Init /\ [][Next]_vars

\* requests handled one after the other; other code uses the random
\* module between them
NextSerial ==
  \/ \E t \in Threads : Quiet(t) /\ ThreadStep(t, FewEvents)
  \/ AllQuiet /\ other_random
  \/ midnight

SpecSerial == Init /\ [][NextSerial]_vars

\* one thread handling every kind of event, one request after the other,
\* while other code may draw from the random module at any time
NextSingle ==
  \/ ThreadStep("t1", AllEvents)
  \/ quick_reply_tap("t1")
  \/ other_random
  \/ midnight

SpecSingle == Init /\ [][NextSingle]_vars

\* requests that reach the selector, handled one after the other
NextMoods ==
  \/ \E t \in Threads : Quiet(t) /\ ThreadStep(t, MoodEvents)
  \/ midnight

SpecMoods == Init /\ [][NextMoods]_vars

\* the query service alone, started on any table, the webhook at rest
InitApi ==
  /\ loadOutcome = "missing"
  /\ STOCK_FORTUNE_DATA = load_stock_fortune_data("missing", [kind |-> "null"])
  /\ dbImported = TRUE
  /\ \E rows \in Stores : FilingInit(rows)
  /\ ThreadsInit

NextApi ==
  \/ get_latest_companies
  \/ collect

SpecApi == InitApi /\ [][NextApi]_vars

(***************************************************************************)
(* Properties.                                                             *)
(***************************************************************************)
\* the selector returned to the handler of t's current request
Returned(t) ==
  /\ UsesSelector(event[t])
  /\ event[t].sig
  /\ \/ pc[t] = "render"
     \/ pc[t] = "done" /\ raised[t] # "selector"

\* the entry a call made alone on day d with this mood returns: the first
\* draw of a generator seeded with d, taken from the mood's candidates
LoneCall(d, mood) ==
  LET l == Candidates(STOCK_FORTUNE_DATA, mood)
  IN  l[RandBelow(d, 0, Len(l)) + 1]

\* some entry of the catalog has a sector the mood maps to
SomeEntryMatches(c, mood) ==
  \E i \in 1..Len(c.items) : InList(c.items[i].sector, MOOD_MAPPING[mood.val])

\* C1: calls that do not overlap, made with the same mood on the same
\* calendar day, return the same entry, whatever draws other code made
\* from the random module between them.
C1_SameDaySameMoodSameEntry ==
  \A t, u \in Threads :
    ( /\ Returned(t) /\ Returned(u)
      /\ today[t] = today[u]
      /\ SelectorMood(event[t]) = SelectorMood(event[u]) )
    => fortune[t] = fortune[u]

\* two finished calls of one day and one mood, the later one made after
\* other code drew from the generator, with more than one candidate
C1_Witness ==
  /\ pc["t1"] = "done" /\ pc["t2"] = "done"
  /\ Returned("t1") /\ Returned("t2")
  /\ today["t1"] = today["t2"]
  /\ SelectorMood(event["t1"]) = SelectorMood(event["t2"])
  /\ MoodMapped(SelectorMood(event["t1"]))
  /\ before["t2"] > 0
  /\ fortune["t1"] # None
  /\ fortune["t1"] = fortune["t2"]
  /\ Len(Candidates(STOCK_FORTUNE_DATA, SelectorMood(event["t1"]))) > 1

\* C2: when selections run concurrently, each returns the entry a call
\* made alone with its mood on its day returns.
C2_ConcurrentSelectionsAsAlone ==
  \A t \in Threads :
    (Returned(t) /\ fortune[t] # None)
    => fortune[t] = LoneCall(today[t], SelectorMood(event[t]))

\* C3: with a mood that is a key of MOOD_MAPPING and a catalog holding at
\* least one entry of a mapped sector, the returned entry's sector is in
\* the mood's list (so an entry of another sector is returned only when no
\* entry matches).
C3_MoodFilterCorrect ==
  \A t \in Threads :
    LET mood == SelectorMood(event[t])
    IN  ( /\ Returned(t)
          /\ MoodMapped(mood)
          /\ SomeEntryMatches(STOCK_FORTUNE_DATA, mood) )
        => /\ fortune[t] # None
           /\ InList(fortune[t].sector, MOOD_MAPPING[mood.val])

\* a mapped mood, a catalog with entries inside and outside the mood's
\* sectors, and an entry returned
C3_Witness ==
  \E t \in Threads :
    LET mood == SelectorMood(event[t])
        c == STOCK_FORTUNE_DATA
    IN  /\ pc[t] = "done" /\ Returned(t)
        /\ MoodMapped(mood)
        /\ SomeEntryMatches(c, mood)
        /\ Len(Candidates(c, mood)) < Len(c.items)
        /\ Len(Candidates(c, mood)) > 1
        /\ fortune[t] = Candidates(c, mood)[2]

\* the moods C4 is about: absent, empty, unmapped, or mapped with no
\* entry of the catalog in the mapped sectors
NoFilterCase(c, mood) ==
  \/ ~MoodMapped(mood)
  \/ /\ c.kind = "list"
     /\ \A i \in 1..Len(c.items) : c.items[i].sector # Absent
     /\ ~SomeEntryMatches(c, mood)

\* C4: on a non-empty catalog, with a mood that is absent, empty, unmapped
\* or mapped to sectors no entry has, the selection does not fail in the
\* filter, its candidates are the whole catalog in order, and it returns
\* an entry of the catalog, never None.
C4_FilterNeverEmpties ==
  \A t \in Threads :
    LET mood == SelectorMood(event[t])
        c == STOCK_FORTUNE_DATA
    IN  ( /\ UsesSelector(event[t]) /\ event[t].sig
          /\ pc[t] \in {"reset", "render", "done"}
          /\ c.kind = "list" /\ c.items # <<>>
          /\ NoFilterCase(c, mood) )
        => /\ raised[t] # "selector"
           /\ ~FilterRaises(c, mood)
           /\ Candidates(c, mood) = c.items
           /\ fortune[t] # None
           /\ InList(fortune[t], c.items)

\* a mapped mood none of whose sectors is in the catalog, and an entry
\* returned
C4_Witness ==
  \E t \in Threads :
    LET mood == SelectorMood(event[t])
        c == STOCK_FORTUNE_DATA
    IN  /\ pc[t] = "done" /\ Returned(t)
        /\ MoodMapped(mood)
        /\ c.kind = "list" /\ Len(c.items) > 1
        /\ ~SomeEntryMatches(c, mood)
        /\ fortune[t] = c.items[2]

\* C5: the catalog used at runtime is never empty, and after a failed
\* load it is the fallback set.
C5_CatalogNeverEmpty ==
  /\ STOCK_FORTUNE_DATA.kind = "list"
  /\ STOCK_FORTUNE_DATA.items # <<>>
  /\ loadOutcome # "parsed" => STOCK_FORTUNE_DATA = FallbackData

\* C6: a handled event ends with reply_message invoked exactly once.
C6_ExactlyOneReplyCall ==
  \A t \in Threads : (pc[t] = "done" /\ event[t].sig) => calls[t] = 1

\* the texts whose trimmed value is one of the four daily-fortune phrases
DailyTexts ==
  FortunePhrases \cup { <<" ">> \o b \o <<"NL">> : b \in FortunePhrases }

\* C7: a text whose trimmed value is one of the four daily-fortune phrases
\* is handled by the daily-fortune rule alone: the selector is called
\* with no mood, no lookup is made, and the reply is the fortune reply
\* without mood annotation (the no-data reply on an empty catalog).
C7_DailyPhraseIsFortune ==
  \A t \in Threads :
    ( /\ event[t].type = "text" /\ event[t].sig
      /\ event[t].payload \in DailyTexts
      /\ pc[t] # "handle" )
    => /\ SelectorMood(event[t]) = MoodNone
       /\ lookup[t] = "none"
       /\ pc[t] \in {"seed", "choice", "reset", "render", "done"}
       /\ reply[t].kind \in {"none", "fortune", "nodata"}
       /\ reply[t].kind = "fortune"
            => /\ reply[t].mood_text = <<>>
               /\ reply[t].entry = fortune[t]
               /\ InList(fortune[t], STOCK_FORTUNE_DATA.items)
       /\ (pc[t] = "done" /\ raised[t] = "none")
            => reply[t].kind \in {"fortune", "nodata"}

\* a daily phrase with whitespace around it answered with a fortune
C7_Witness ==
  \E t \in Threads :
    /\ pc[t] = "done"
    /\ event[t].payload = <<" ">> \o FortuneBase \o <<"clover", "NL">>
    /\ reply[t].kind = "fortune"
    /\ delivered[t]
    /\ response[t] = "OK"

\* C8: a correctly signed event none of whose send attempts failed ends
\* with a reply sent and callback answering "OK" (so a failure inside the
\* selector or the rendering is turned into a reply, and 400 is left to
\* signature failures).
C8_CoreFailuresGetReply ==
  \A t \in Threads :
    (pc[t] = "done" /\ event[t].sig /\ raised[t] # "send")
    => (delivered[t] /\ response[t] = "OK")

\* C9: when the company lookup is unavailable or raises, the handler calls
\* reply_message once, with the apology, and no exception of the lookup
\* leaves the handler: callback answers "OK" unless that send itself
\* raised.
C9_LookupFailureApologises ==
  \A t \in Threads :
    (pc[t] = "done" /\ lookup[t] \in {"unavailable", "raised"})
    => /\ reply[t].kind = "apology"
       /\ calls[t] = 1
       /\ raised[t] \in {"none", "send"}
       /\ raised[t] = "none" => (delivered[t] /\ response[t] = "OK")

\* the lookup was unavailable and the apology went out
C9_Witness ==
  \E t \in Threads :
    /\ pc[t] = "done"
    /\ TextRule(event[t].payload) = "analysis"
    /\ lookup[t] = "unavailable"
    /\ reply[t].kind = "apology"
    /\ delivered[t]
    /\ response[t] = "OK"

\* C10: while no selection is in progress the shared generator is not in
\* the date-seeded state.
C10_GeneratorRestored ==
  (\A t \in Threads : pc[t] \in {"idle", "handle", "render", "done"})
  => rng.mode # "date"

\* C11: a call whose signature verification fails is answered 400 and
\* nothing of it is dispatched (no handler step, no lookup, no selection,
\* no reply_message call); a call whose verification and dispatch raise
\* nothing is answered "OK".
C11_BadSignatureNotDispatched ==
  \A t \in Threads :
    /\ (event[t].type # "none" /\ ~event[t].sig)
         => /\ pc[t] = "done"
            /\ response[t] = "400"
            /\ raised[t] = "signature"
            /\ calls[t] = 0 /\ ~delivered[t] /\ reply[t] = NoReply
            /\ lookup[t] = "none" /\ today[t] = 0 /\ fortune[t] = None
    /\ (pc[t] = "done" /\ event[t].sig /\ raised[t] = "none")
         => response[t] = "OK"

\* a call with a bad signature answered 400 on a thread whose earlier,
\* correctly signed call was answered "OK" (the other cases of C11)
C11_Witness ==
  /\ pc["t1"] = "done"
  /\ event["t1"] = PostbackEvent(FALSE, <<"action=fortune">>)
  /\ response["t1"] = "400"
  /\ calls["t1"] = 0
  /\ rng.pos > 0

\* C12: a postback is classified by exact match of its payload: the
\* detail and holdings codes get their own reply, the fortune code runs
\* the selector with no mood, and any other payload (a code with
\* whitespace or a suffix too) gets the Unknown reply.
C12_PostbackExactMatch ==
  \A t \in Threads :
    (event[t].type = "postback" /\ event[t].sig /\ pc[t] = "done")
    => LET data == event[t].payload
       IN  /\ data = <<"action=detail">>
                => reply[t] = [kind |-> "postback", what |-> "detail"]
           /\ data = <<"action=holdings">>
                => reply[t] = [kind |-> "postback", what |-> "holdings"]
           /\ data = <<"action=fortune">>
                => /\ reply[t].kind \in {"fortune", "nodata", "none"}
                   /\ reply[t].kind = "fortune"
                        => /\ reply[t].mood_text = <<>>
                           /\ reply[t].entry = fortune[t]
                           /\ InList(fortune[t], STOCK_FORTUNE_DATA.items)
                   /\ reply[t].kind = "nodata" => ~CatalogTruthy(STOCK_FORTUNE_DATA)
                   /\ reply[t].kind = "none" => raised[t] \in {"selector", "render"}
           /\ data \notin {<<"action=detail">>, <<"action=holdings">>,
                           <<"action=fortune">>}
                => /\ reply[t] = [kind |-> "postback", what |-> "unknown"]
                   /\ today[t] = 0 /\ fortune[t] = None

\* the fortune code followed by a blank answered with the Unknown reply
C12_Witness ==
  \E t \in Threads :
    /\ pc[t] = "done"
    /\ event[t] = PostbackEvent(TRUE, <<"action=fortune", " ">>)
    /\ reply[t] = [kind |-> "postback", what |-> "unknown"]
    /\ delivered[t]

\* the get_latest_companies call just answered ran every statement it
\* reached without one of them raising
AnsweredNoFault == answer # NoAnswer /\ fault = "none"

\* C13: on a store with at least one row the answer is 200, latest_date is
\* the greatest date value a row of the store holds, and companies is
\* exactly the rows of that date.
C13_LatestWhenStoreHasRows ==
  (AnsweredNoFault /\ store # <<>>)
    => /\ answer.status = 200
       /\ \E i \in 1..Len(store) : store[i].date = answer.latest_date
       /\ \A i \in 1..Len(store) : store[i].date <= answer.latest_date
       /\ LET ofDate(r) == r.date = answer.latest_date
              picked == SelectSeq(store, ofDate)
          IN  answer.companies =
                [ i \in 1..Len(picked) |->
                    [name |-> picked[i].name, code |-> picked[i].code,
                     type |-> picked[i].type] ]

\* C14: an empty store is answered 404 "No data found"; a call in which a
\* statement raises is answered 500 with another body.
C14_NoDataDistinctFromFailure ==
  answer # NoAnswer
    => /\ (store = <<>> /\ fault = "none")
            => /\ answer.status = 404
               /\ answer.error = "No data found"
       /\ fault # "none"
            => /\ answer.status = 500
               /\ answer.error # "No data found"

\* the empty store was queried and answered 404
C14_Witness ==
  /\ store = <<>>
  /\ AnsweredNoFault
  /\ answer = NoData

\* C18: no connection stays open after any sequence of calls, whatever
\* their outcomes.
C18_NoConnectionLeftOpen == openConns = 0

\* C15: the menu has one option per name the lookup returned, in the
\* lookup's order; the label of a name longer than 20 characters is its
\* first 20 characters, the label of a shorter name is the name.
C15_OneOptionPerNameLabelCut ==
  \A t \in Threads :
    reply[t].kind = "menu"
      => /\ Len(reply[t].items) = Len(companies[t])
         /\ \A i \in 1..Len(companies[t]) :
              LET name == companies[t][i]
                  label == reply[t].items[i].label
              IN  IF Len(name) > LabelLimit
                    THEN /\ Len(label) = LabelLimit
                         /\ \A k \in 1..LabelLimit : label[k] = name[k]
                    ELSE label = name

\* a delivered menu of two options, the second built from a name of 21
\* characters and labelled with 20
C15_Witness ==
  /\ reply["t1"].kind = "menu"
  /\ delivered["t1"]
  /\ companies["t1"] = << <<"A", "B">>, LongName >>
  /\ reply["t1"].items[1].label = <<"A", "B">>
  /\ Len(reply["t1"].items[2].label) = LabelLimit

\* what follows the leading marker of a text, trimmed
AfterLeadingMarker(text) ==
  LET n == Strip(text)
  IN  Strip(SubSeq(n, Len(DetailPrefix) + 1, Len(n)))

\* C16: the company name of a detail reply is what follows the leading
\* marker of the text, trimmed, the rest left intact, also when the marker
\* occurs again.
C16_NameIsRemainderAfterMarker ==
  \A t \in Threads :
    (event[t].type = "text" /\ reply[t].kind = "detail")
      => reply[t].company = AfterLeadingMarker(event[t].payload)

\* C17: the text of a tapped option is dispatched to the detail rule and
\* the name extracted there is the name the option was built from.
C17_PayloadRoundTrip ==
  \A t \in Threads :
    (pc[t] = "done" /\ tapped[t].some)
      => /\ reply[t].kind = "detail"
         /\ reply[t].company = tapped[t].val

\* C20: the date shown in a fortune reply is the day whose seed selected
\* the entry of that reply.
C20_ReplyDateIsSelectionDay ==
  \A t \in Threads :
    reply[t].kind = "fortune" => reply[t].date = today[t]

\* C19: calls that do not overlap, made on one day with moods that leave
\* the same candidate list (no mood, the sentinel, an empty or unmapped
\* mood, mapped moods that match the same entries), return the same entry.
C19_EntryDependsOnDayAndCandidates ==
  \A t, u \in Threads :
    ( /\ Returned(t) /\ Returned(u)
      /\ today[t] = today[u]
      /\ Candidates(STOCK_FORTUNE_DATA, SelectorMood(event[t]))
           = Candidates(STOCK_FORTUNE_DATA, SelectorMood(event[u])) )
    => fortune[t] = fortune[u]

\* two finished calls of one day with two different mapped moods that
\* match the same two entries out of four
C19_Witness ==
  /\ pc["t1"] = "done" /\ pc["t2"] = "done"
  /\ Returned("t1") /\ Returned("t2")
  /\ today["t1"] = today["t2"]
  /\ SelectorMood(event["t1"]) = Some(Sekkyokuteki)
  /\ SelectorMood(event["t2"]) = Some(Tankiteki)
  /\ Len(STOCK_FORTUNE_DATA.items) = 4
  /\ Len(Candidates(STOCK_FORTUNE_DATA, Some(Tankiteki))) = 2
  /\ fortune["t1"] = fortune["t2"]
  /\ fortune["t1"] # None

\* two finished calls of one day, one with the plain daily phrase and one
\* with an unmapped mood, that returned the same entry of a catalog of four
C19_WitnessUnmapped ==
  /\ pc["t1"] = "done" /\ pc["t2"] = "done"
  /\ Returned("t1") /\ Returned("t2")
  /\ today["t1"] = today["t2"]
  /\ event["t1"] = TextEvent(TRUE, FortuneBase)
  /\ event["t2"] = TextEvent(TRUE, MoodPrefix \o UnknownMood)
  /\ Len(STOCK_FORTUNE_DATA.items) = 4
  /\ fortune["t1"] = fortune["t2"]
  /\ fortune["t1"] # None

====
